---- MODULE Spec2Model ----
(***************************************************************************)
(* Model of the pattern core of librsvg's Rust code:                       *)
(*   rust/src/aspect_ratio.rs  preserveAspectRatio values                  *)
(*   rust/src/pattern.rs       pattern fallback resolution and set-up      *)
(*   rust/src/length.rs        lengths                                     *)
(*                                                                         *)
(* Numbers that are f64 in the source are modelled as exact rationals      *)
(* <<numerator, denominator>>; a u32 word is the set of its set bits.      *)
(* Option<T> is a sequence of length 0 (None) or 1 (Some (v)).             *)
(***************************************************************************)
EXTENDS Integers, Sequences, FiniteSets, TLC

VARIABLES
    fnArgs,         \* the arguments of the pure function under call
    fnRet,          \* what the call returned (NoRet before the call)
    pc,             \* where pattern_resolve_fallbacks_and_set_pattern stands
    nodes,          \* the host's nodes by id: pattern data and children
    pattern,        \* the caller's pattern (*raw_pattern)
    result,         \* resolve_pattern's working copy, then `resolved`
    acquired_nodes, \* NodeFallbackSource.acquired_nodes
    node_log,       \* the acquire_node / release_node calls made, in order
    iters,          \* turns of resolve_pattern's loop taken so far
    bbox,           \* the bbox argument
    exit,           \* how set_pattern_on_draw_context left ("none" before)
    draw_ctx        \* the drawing context

fnVars == <<fnArgs, fnRet>>
patVars == <<pc, nodes, pattern, result, acquired_nodes, node_log, iters, bbox, exit,
            draw_ctx>>
vars == <<fnArgs, fnRet, pc, nodes, pattern, result, acquired_nodes, node_log, iters,
          bbox, exit, draw_ctx>>

\* No pattern call is under way (the specifications of the pure functions).
PatternOff ==
    /\ pc = "off"
    /\ nodes = <<>>
    /\ pattern = <<>>
    /\ result = <<>>
    /\ acquired_nodes = <<>>
    /\ node_log = <<>>
    /\ iters = 0
    /\ bbox = <<>>
    /\ exit = "none"
    /\ draw_ctx = <<>>

NoRet == [tag |-> "NoRet"]
NoArgs == [tag |-> "NoArgs"]

(***************************************************************************)
(* Option<T>                                                               *)
(***************************************************************************)
None == <<>>
Some(v) == <<v>>
is_some(o) == Len(o) = 1
is_none(o) == Len(o) = 0
unwrap(o) == o[1]

(***************************************************************************)
(* f64 as exact rationals                                                  *)
(***************************************************************************)
Abs(n) == IF n < 0 THEN -n ELSE n

RECURSIVE Gcd(_, _)
Gcd(a, b) == IF b = 0 THEN a ELSE Gcd(b, a % b)

Rat(n, d) ==
    LET g == Gcd(Abs(n), Abs(d))
        s == IF d < 0 THEN -1 ELSE 1
    IN  <<(s * n) \div g, (s * d) \div g>>

R(n) == <<n, 1>>
RAdd(a, b) == Rat(a[1] * b[2] + b[1] * a[2], a[2] * b[2])
RSub(a, b) == Rat(a[1] * b[2] - b[1] * a[2], a[2] * b[2])
RMul(a, b) == Rat(a[1] * b[1], a[2] * b[2])
RDiv(a, b) == Rat(a[1] * b[2], a[2] * b[1])
RLess(a, b) == a[1] * b[2] < b[1] * a[2]
RMin(a, b) == IF RLess(b, a) THEN b ELSE a
RMax(a, b) == IF RLess(a, b) THEN b ELSE a

(***************************************************************************)
(* aspect_ratio.rs: types                                                  *)
(***************************************************************************)
FitMode == {"Meet", "Slice"}

\* The nine variants, in declaration order.
AlignMode ==
    <<"XminYmin", "XmidYmin", "XmaxYmin",
      "XminYmid", "XmidYmid", "XmaxYmid",
      "XminYmax", "XmidYmax", "XmaxYmax">>

AlignModes == {AlignMode[i] : i \in 1..Len(AlignMode)}

AlignNone == [tag |-> "None"]
Aligned(a, f) == [tag |-> "Aligned", align |-> a, fit |-> f]

Align == {AlignNone} \cup {Aligned(a, f) : a \in AlignModes, f \in FitMode}

AspectRatio == [defer : BOOLEAN, align : Align]

Align_default == Aligned("XmidYmid", "Meet")

AspectRatio_default == [defer |-> FALSE, align |-> Align_default]

Panic == [tag |-> "Panic"]

(***************************************************************************)
(* aspect_ratio.rs: AspectRatioFlags (bitflags! over u32).  A u32 word is  *)
(* the set of the positions 0..31 of its set bits, so (1 << k) is {k},     *)
(* a | b is a \cup b and a & b is a \cap b.                                *)
(***************************************************************************)
U32Bits == 0..31
Shl1(k) == {k}

XMIN_YMIN == Shl1(0)
XMID_YMIN == Shl1(1)
XMAX_YMIN == Shl1(2)
XMIN_YMID == Shl1(3)
XMID_YMID == Shl1(4)
XMAX_YMID == Shl1(5)
XMIN_YMAX == Shl1(6)
XMID_YMAX == Shl1(7)
XMAX_YMAX == Shl1(8)
SLICE == Shl1(30)
DEFER == Shl1(31)

AspectRatioFlags_all ==
    UNION {XMIN_YMIN, XMID_YMIN, XMAX_YMIN, XMIN_YMID, XMID_YMID, XMAX_YMID,
           XMIN_YMAX, XMID_YMAX, XMAX_YMAX, SLICE, DEFER}

AspectRatioFlags_empty == {}

\* val.contains (flag): (val & flag) == flag
contains(val, flag) == (val \cap flag) = flag

\* AspectRatioFlags::from_bits: None when a bit that is no flag is set
from_bits(val) ==
    IF val \subseteq AspectRatioFlags_all THEN Some(val) ELSE None

(***************************************************************************)
(* aspect_ratio.rs: AspectRatio::from_u32, to_u32                          *)
(***************************************************************************)
from_u32_mutant(val) ==
    LET fb == from_bits(val) IN
    IF is_none(fb) THEN Panic
    ELSE
      LET v == unwrap(fb)
          defer == contains(v, DEFER)
          found == {i \in 1..9 : contains(v, Shl1(i - 1))}
          aligned == found # {}
          align == IF aligned
                   THEN AlignMode[CHOOSE i \in found : \A j \in found : i <= j]
                   ELSE "XmidYmid"
      IN  [defer |-> defer,
           align |-> IF aligned THEN Aligned(align, "Meet") ELSE AlignNone]

from_u32(val) ==
    LET fb == from_bits(val) IN
    IF is_none(fb) THEN Panic          \* .unwrap () of None
    ELSE
      LET v == unwrap(fb)
          defer == contains(v, DEFER)
          aligned ==
              \/ contains(v, XMIN_YMIN) \/ contains(v, XMID_YMIN)
              \/ contains(v, XMAX_YMIN) \/ contains(v, XMIN_YMID)
              \/ contains(v, XMID_YMID) \/ contains(v, XMAX_YMID)
              \/ contains(v, XMIN_YMAX) \/ contains(v, XMID_YMAX)
              \/ contains(v, XMAX_YMAX)
          align ==
              IF contains(v, XMIN_YMIN) THEN "XminYmin"
              ELSE IF contains(v, XMID_YMIN) THEN "XmidYmin"
              ELSE IF contains(v, XMAX_YMIN) THEN "XmaxYmin"
              ELSE IF contains(v, XMIN_YMID) THEN "XminYmid"
              ELSE IF contains(v, XMID_YMID) THEN "XmidYmid"
              ELSE IF contains(v, XMAX_YMID) THEN "XmaxYmid"
              ELSE IF contains(v, XMIN_YMAX) THEN "XminYmax"
              ELSE IF contains(v, XMID_YMAX) THEN "XmidYmax"
              ELSE IF contains(v, XMAX_YMAX) THEN "XmaxYmax"
              ELSE "XmidYmid"
          fit == IF contains(v, SLICE) THEN "Slice" ELSE "Meet"
      IN  [defer |-> defer,
           align |-> IF aligned THEN Aligned(align, fit) ELSE AlignNone]

AlignFlag(align) ==
    CASE align = "XminYmin" -> XMIN_YMIN
      [] align = "XmidYmin" -> XMID_YMIN
      [] align = "XmaxYmin" -> XMAX_YMIN
      [] align = "XminYmid" -> XMIN_YMID
      [] align = "XmidYmid" -> XMID_YMID
      [] align = "XmaxYmid" -> XMAX_YMID
      [] align = "XminYmax" -> XMIN_YMAX
      [] align = "XmidYmax" -> XMID_YMAX
      [] align = "XmaxYmax" -> XMAX_YMAX

to_u32_mutant(self) ==
    LET val0 == AspectRatioFlags_empty
        val1 == IF self.defer THEN val0 \cup DEFER ELSE val0
    IN  IF self.align.tag = "None" THEN val1
        ELSE LET val2 == val1 \cup AlignFlag(self.align.align)
             IN  IF self.align.fit = "Slice" THEN val2 \cup Shl1(29) ELSE val2

to_u32(self) ==
    LET val0 == AspectRatioFlags_empty
        val1 == IF self.defer THEN val0 \cup DEFER ELSE val0
    IN  IF self.align.tag = "None" THEN val1
        ELSE LET val2 == val1 \cup AlignFlag(self.align.align)
             IN  IF self.align.fit = "Slice" THEN val2 \cup SLICE ELSE val2

(***************************************************************************)
(* aspect_ratio.rs: align_1d and AspectRatio::compute                      *)
(***************************************************************************)
align_1d(a, dest_pos, dest_size, obj_size) ==
    CASE a = "Min" -> dest_pos
      [] a = "Mid" -> RAdd(dest_pos, RDiv(RSub(dest_size, obj_size), R(2)))
      [] a = "Max" -> RSub(RAdd(dest_pos, dest_size), obj_size)

\* the (xalign, yalign) written by each arm of the match in compute
Align1DOf_mutant(align) ==
    CASE align = "XminYmin" -> <<"Min", "Min">>
      [] align = "XminYmid" -> <<"Mid", "Min">>
      [] align = "XminYmax" -> <<"Max", "Min">>
      [] align = "XmidYmin" -> <<"Min", "Mid">>
      [] align = "XmidYmid" -> <<"Mid", "Mid">>
      [] align = "XmidYmax" -> <<"Max", "Mid">>
      [] align = "XmaxYmin" -> <<"Min", "Max">>
      [] align = "XmaxYmid" -> <<"Mid", "Max">>
      [] align = "XmaxYmax" -> <<"Max", "Max">>

Align1DOf(align) ==
    CASE align = "XminYmin" -> <<"Min", "Min">>
      [] align = "XminYmid" -> <<"Min", "Mid">>
      [] align = "XminYmax" -> <<"Min", "Max">>
      [] align = "XmidYmin" -> <<"Mid", "Min">>
      [] align = "XmidYmid" -> <<"Mid", "Mid">>
      [] align = "XmidYmax" -> <<"Mid", "Max">>
      [] align = "XmaxYmin" -> <<"Max", "Min">>
      [] align = "XmaxYmid" -> <<"Max", "Mid">>
      [] align = "XmaxYmax" -> <<"Max", "Max">>

\* object_width and object_height are not zero here (x / 0.0 is not a rational)
compute(self, object_width, object_height, dest_x, dest_y, dest_width, dest_height) ==
    IF self.align.tag = "None"
    THEN <<dest_x, dest_y, dest_width, dest_height>>
    ELSE
      LET w_factor == RDiv(dest_width, object_width)
          h_factor == RDiv(dest_height, object_height)
          factor == IF self.align.fit = "Meet"
                    THEN RMin(w_factor, h_factor)
                    ELSE RMax(w_factor, h_factor)
          w == RMul(object_width, factor)
          h == RMul(object_height, factor)
          xy == Align1DOf(self.align.align)
          xpos == align_1d(xy[1], dest_x, dest_width, w)
          ypos == align_1d(xy[2], dest_y, dest_height, h)
      IN  <<xpos, ypos, w, h>>

(***************************************************************************)
(* aspect_ratio.rs: parsing.  A &str is the sequence of its pieces, each   *)
(* a run of non-blank characters or the blank " "; the string is their     *)
(* concatenation.                                                          *)
(***************************************************************************)
Blank == " "

\* str::split_whitespace: the maximal runs of non-blank characters
RECURSIVE SplitFrom(_, _, _, _)
SplitFrom(s, i, cur, acc) ==
    IF i > Len(s)
    THEN IF cur = "" THEN acc ELSE Append(acc, cur)
    ELSE IF s[i] = Blank
         THEN SplitFrom(s, i + 1, "", IF cur = "" THEN acc ELSE Append(acc, cur))
         ELSE SplitFrom(s, i + 1, cur \o s[i], acc)

split_whitespace(s) == SplitFrom(s, 1, "", <<>>)

parse_align_mode_mutant(s) ==
    CASE s = "none"     -> Some(AlignNone)
      [] s = "xMinYMin" -> Some(Aligned("XminYmin", "Meet"))
      [] s = "xMidYMin" -> Some(Aligned("XmidYmin", "Meet"))
      [] s = "xMaxYMin" -> Some(Aligned("XmaxYmin", "Meet"))
      [] s = "xMinYMid" -> Some(Aligned("XminYmid", "Meet"))
      [] s = "xMidYMid" -> Some(Aligned("XmidYmid", "Meet"))
      [] s = "xmidymid" -> Some(Aligned("XmidYmid", "Meet"))
      [] s = "xMaxYMid" -> Some(Aligned("XmaxYmid", "Meet"))
      [] s = "xMinYMax" -> Some(Aligned("XminYmax", "Meet"))
      [] s = "xMidYMax" -> Some(Aligned("XmidYmax", "Meet"))
      [] s = "xMaxYMax" -> Some(Aligned("XmaxYmax", "Meet"))
      [] OTHER          -> None

parse_align_mode(s) ==
    CASE s = "none"     -> Some(AlignNone)
      [] s = "xMinYMin" -> Some(Aligned("XminYmin", "Meet"))
      [] s = "xMidYMin" -> Some(Aligned("XmidYmin", "Meet"))
      [] s = "xMaxYMin" -> Some(Aligned("XmaxYmin", "Meet"))
      [] s = "xMinYMid" -> Some(Aligned("XminYmid", "Meet"))
      [] s = "xMidYMid" -> Some(Aligned("XmidYmid", "Meet"))
      [] s = "xMaxYMid" -> Some(Aligned("XmaxYmid", "Meet"))
      [] s = "xMinYMax" -> Some(Aligned("XminYmax", "Meet"))
      [] s = "xMidYMax" -> Some(Aligned("XmidYmax", "Meet"))
      [] s = "xMaxYMax" -> Some(Aligned("XmaxYmax", "Meet"))
      [] OTHER          -> None

parse_fit_mode_mutant(s) ==
    CASE s = "meet"  -> Some("Meet")
      [] s = "slice" -> Some("Meet")
      [] OTHER       -> None

parse_fit_mode(s) ==
    CASE s = "meet"  -> Some("Meet")
      [] s = "slice" -> Some("Slice")
      [] OTHER       -> None

ParseState == {"Defer", "Align", "Fit", "Finished"}

\* AttributeError::Parse (ParseError)
make_err == [ok |-> FALSE, err |-> "Parse"]
Ok(v) == [ok |-> TRUE, v |-> v]

\* The locals of parse: defer, align, fit_mode and state.
ParseLocals0 ==
    [defer |-> FALSE, align |-> Align_default, fit_mode |-> "Meet",
     state |-> "Defer", failed |-> FALSE]

\* One turn of the while loop on token v.
ParseToken(l, v) ==
    CASE l.state = "Defer" ->
           IF v = "defer"
           THEN [l EXCEPT !.defer = TRUE, !.state = "Align"]
           ELSE IF is_some(parse_align_mode(v))
                THEN [l EXCEPT !.align = unwrap(parse_align_mode(v)), !.state = "Fit"]
                ELSE [l EXCEPT !.failed = TRUE]
      [] l.state = "Align" ->
           IF is_some(parse_align_mode(v))
           THEN [l EXCEPT !.align = unwrap(parse_align_mode(v)), !.state = "Fit"]
           ELSE [l EXCEPT !.failed = TRUE]
      [] l.state = "Fit" ->
           IF is_some(parse_fit_mode(v))
           THEN [l EXCEPT !.fit_mode = unwrap(parse_fit_mode(v)), !.state = "Finished"]
           ELSE [l EXCEPT !.failed = TRUE]
      [] OTHER -> [l EXCEPT !.failed = TRUE]

\* The while loop: stops at the first token that returns Err.
RECURSIVE ParseLoop(_, _, _)
ParseLoop(tokens, i, l) ==
    IF l.failed \/ i > Len(tokens) THEN l
    ELSE ParseLoop(tokens, i + 1, ParseToken(l, tokens[i]))

\* The match on the state after the loop.
ParseEndOk_mutant(state) == state \in {"Align", "Fit", "Finished"}

ParseEndOk(state) == state \in {"Fit", "Finished"}

AspectRatio_parse(s) ==
    LET l == ParseLoop(split_whitespace(s), 1, ParseLocals0) IN
    IF l.failed THEN make_err
    ELSE IF ~ParseEndOk(l.state) THEN make_err
    ELSE Ok([defer |-> l.defer,
             align |-> IF l.align.tag = "None" THEN AlignNone
                       ELSE Aligned(l.align.align, l.fit_mode)])

(***************************************************************************)
(* Calls of AspectRatio::parse on strings built token by token             *)
(***************************************************************************)
MaxWords == 3

\* the words the strings are made of: every keyword, a wrongly-cased
\* align name and a word that is no keyword
Words ==
    {"defer", "none", "meet", "slice", "foo", "xmidymid",
     "xMinYMin", "xMidYMin", "xMaxYMin", "xMinYMid", "xMidYMid",
     "xMaxYMid", "xMinYMax", "xMidYMax", "xMaxYMax"}

\* what precedes a word: nothing or a blank
Gaps == {"", Blank}

InitAspectParse ==
    /\ fnArgs = [fn |-> "parse", s |-> <<>>, toks |-> <<>>, words |-> 0,
                 closed |-> FALSE]
    /\ fnRet = NoRet
    /\ PatternOff

\* The caller extends the string by a word; toks is the caller's own list
\* of the tokens it has written (a word written without a gap continues
\* the token before it).
AppendWord ==
    /\ fnArgs.fn = "parse"
    /\ fnRet = NoRet
    /\ fnArgs.words < MaxWords
    /\ ~fnArgs.closed
    /\ \E gap \in Gaps, w \in Words :
         fnArgs' =
           [fnArgs EXCEPT
              !.words = @ + 1,
              !.s = IF gap = "" THEN Append(@, w) ELSE Append(Append(@, gap), w),
              !.toks = IF gap = "" /\ Len(@) > 0
                       THEN [@ EXCEPT ![Len(@)] = @ \o w]
                       ELSE Append(@, w)]
    /\ UNCHANGED <<fnRet, patVars>>

\* The caller ends the string with a blank.
AppendBlank ==
    /\ fnArgs.fn = "parse"
    /\ fnRet = NoRet
    /\ ~fnArgs.closed
    /\ fnArgs' = [fnArgs EXCEPT !.s = Append(@, Blank), !.closed = TRUE]
    /\ UNCHANGED <<fnRet, patVars>>

CallAspectParse ==
    /\ fnArgs.fn = "parse"
    /\ fnRet = NoRet
    /\ fnRet' = AspectRatio_parse(fnArgs.s)
    /\ UNCHANGED <<fnArgs, patVars>>

NextAspectParse == AppendWord \/ AppendBlank \/ CallAspectParse

SpecAspectParse == InitAspectParse /\ [][NextAspectParse]_vars

(***************************************************************************)
(* Calls of to_u32 and from_u32                                            *)
(***************************************************************************)
\* the bits the words given to from_u32 are made of
SampleBits == {0, 1, 4, 8, 9, 29, 30, 31}

InitAspectBits ==
    /\ fnArgs \in {[fn |-> "to_u32", self |-> a] : a \in AspectRatio}
                  \cup {[fn |-> "from_u32", val |-> w] : w \in SUBSET SampleBits}
    /\ fnRet = NoRet
    /\ PatternOff

CallToU32 ==
    /\ fnArgs.fn = "to_u32"
    /\ fnRet = NoRet
    /\ fnRet' = [tag |-> "word", word |-> to_u32(fnArgs.self)]
    /\ UNCHANGED <<fnArgs, patVars>>

\* tests::test_roundtrip: from_u32 of the word to_u32 gave
CallFromU32OfWord ==
    /\ fnArgs.fn = "to_u32"
    /\ fnRet.tag = "word"
    /\ fnRet' = [tag |-> "back", word |-> fnRet.word, back |-> from_u32(fnRet.word)]
    /\ UNCHANGED <<fnArgs, patVars>>

CallFromU32 ==
    /\ fnArgs.fn = "from_u32"
    /\ fnRet = NoRet
    /\ fnRet' = [tag |-> "value", value |-> from_u32(fnArgs.val)]
    /\ UNCHANGED <<fnArgs, patVars>>

NextAspectBits == CallToU32 \/ CallFromU32OfWord \/ CallFromU32

SpecAspectBits == InitAspectBits /\ [][NextAspectBits]_vars

(***************************************************************************)
(* Calls of AspectRatio::compute                                           *)
(***************************************************************************)
\* object and destination sizes (positive) and destination positions
SampleSizes == {R(1), R(10), Rat(3, 2)}
SamplePositions == {R(0), R(-2)}

InitAspectCompute ==
    /\ fnArgs \in [fn : {"compute"}, self : AspectRatio,
                   object_width : SampleSizes, object_height : SampleSizes,
                   dest_x : SamplePositions, dest_y : SamplePositions,
                   dest_width : SampleSizes, dest_height : SampleSizes]
    /\ fnRet = NoRet
    /\ PatternOff

CallCompute ==
    /\ fnArgs.fn = "compute"
    /\ fnRet = NoRet
    /\ fnRet' = [tag |-> "rect",
                 rect |-> compute(fnArgs.self, fnArgs.object_width, fnArgs.object_height,
                                  fnArgs.dest_x, fnArgs.dest_y,
                                  fnArgs.dest_width, fnArgs.dest_height)]
    /\ UNCHANGED <<fnArgs, patVars>>

NextAspectCompute == CallCompute

SpecAspectCompute == InitAspectCompute /\ [][NextAspectCompute]_vars

(***************************************************************************)
(* Properties of aspect_ratio.rs                                           *)
(***************************************************************************)
AxisNames == {"Min", "Mid", "Max"}

\* the align tokens of the grammar, spelled out from their parts
AlignTokens == {"none"} \cup {"x" \o a \o "Y" \o b : a \in AxisNames, b \in AxisNames}

\* [ "defer" ] <align> [ "meet" | "slice" ]
InGrammar(toks) ==
    \E d \in {<<>>, <<"defer">>}, a \in AlignTokens,
       f \in {<<>>, <<"meet">>, <<"slice">>} : toks = d \o <<a>> \o f

ParseReturned == fnArgs.fn = "parse" /\ fnRet # NoRet

\* C6: AspectRatio::parse returns Ok exactly for the whitespace-separated
\* token sequences [defer] <align> [meet | slice]; every other sequence
\* yields the grammar error.
C6_ParseAcceptsExactlyGrammar ==
    ParseReturned =>
        /\ fnRet.ok <=> InGrammar(fnArgs.toks)
        /\ ~fnRet.ok => fnRet = make_err

\* a token after the fit keyword has been rejected
C6_Witness ==
    /\ ParseReturned
    /\ fnArgs.toks = <<"xMidYMid", "meet", "foo">>
    /\ ~fnRet.ok

LowerAxis(a) == CASE a = "Min" -> "min" [] a = "Mid" -> "mid" [] a = "Max" -> "max"

\* the align mode an align token names
ModeNamed(tok) ==
    LET ab == CHOOSE ab \in AxisNames \X AxisNames : tok = "x" \o ab[1] \o "Y" \o ab[2]
    IN  "X" \o LowerAxis(ab[1]) \o "Y" \o LowerAxis(ab[2])

\* C7: for every accepted string, defer is true exactly when the first
\* token is "defer"; align is Aligned with the mode the align token names
\* and fit Slice exactly when "slice" follows it (Meet otherwise); align is
\* None when the align token is "none", with or without a fit keyword.
C7_ParsedValue ==
    (ParseReturned /\ fnRet.ok) =>
        LET toks == fnArgs.toks
            pos == IF toks[1] = "defer" THEN 2 ELSE 1
            slice == Len(toks) > pos /\ toks[pos + 1] = "slice"
        IN  /\ fnRet.v.defer = (toks[1] = "defer")
            /\ fnRet.v.align =
                 IF toks[pos] = "none" THEN AlignNone
                 ELSE Aligned(ModeNamed(toks[pos]), IF slice THEN "Slice" ELSE "Meet")

C7_Witness ==
    /\ ParseReturned
    /\ fnArgs.toks = <<"defer", "xMinYMax", "slice">>
    /\ fnRet.ok
    /\ fnRet.v = [defer |-> TRUE, align |-> Aligned("XminYmax", "Slice")]

\* C8: from_u32 (to_u32 (a)) = a for every AspectRatio a.
C8_RoundTrip ==
    (fnArgs.fn = "to_u32" /\ fnRet.tag = "back") => fnRet.back = fnArgs.self

C8_Witness ==
    /\ fnArgs.fn = "to_u32"
    /\ fnRet.tag = "back"
    /\ fnArgs.self = [defer |-> TRUE, align |-> Aligned("XmaxYmid", "Slice")]

\* the align modes in the order of their bits, bit 0 first
BitOrder ==
    <<"XminYmin", "XmidYmin", "XmaxYmin", "XminYmid", "XmidYmid",
      "XmaxYmid", "XminYmax", "XmidYmax", "XmaxYmax">>

BitIndex(mode) == (CHOOSE i \in 1..9 : BitOrder[i] = mode) - 1

\* C9: in the word to_u32 gives, exactly one of bits 0..8 is set when align
\* is Aligned (the bit of its mode) and none when align is None; bit 30 is
\* set exactly for Aligned with Slice; bit 31 exactly when defer; bits
\* 9..29 are clear.
C9_BitLayout ==
    (fnArgs.fn = "to_u32" /\ fnRet.tag \in {"word", "back"}) =>
        LET w == fnRet.word
            a == fnArgs.self
            aligned == a.align.tag = "Aligned"
        IN  /\ w \subseteq U32Bits
            /\ w \cap (0..8) = IF aligned THEN {BitIndex(a.align.align)} ELSE {}
            /\ (30 \in w) <=> (aligned /\ a.align.fit = "Slice")
            /\ (31 \in w) <=> a.defer
            /\ w \cap (9..29) = {}

C9_Witness ==
    /\ fnArgs.fn = "to_u32"
    /\ fnRet.tag = "word"
    /\ fnArgs.self = [defer |-> TRUE, align |-> Aligned("XminYmax", "Slice")]
    /\ fnRet.word = {6, 30, 31}

AxisRule == <<"Min", "Mid", "Max">>

\* the X part and the Y part of an align mode
XPart(mode) == AxisRule[(BitIndex(mode) % 3) + 1]
YPart(mode) == AxisRule[(BitIndex(mode) \div 3) + 1]

Placed(rule, pos, dest_pos, dest_size, size) ==
    CASE rule = "Min" -> pos = dest_pos
      [] rule = "Mid" -> RMul(R(2), RSub(pos, dest_pos)) = RSub(dest_size, size)
      [] rule = "Max" -> RAdd(pos, size) = RAdd(dest_pos, dest_size)

\* C10: compute returns the destination rectangle unchanged for align
\* None; for Aligned it returns w = object_w * f and h = object_h * f with
\* f the smaller (Meet) or the larger (Slice) of dest_w / object_w and
\* dest_h / object_h, and places each axis by the rule of its part of the
\* align mode.
C10_ComputeMatchesFormula ==
    (fnArgs.fn = "compute" /\ fnRet.tag = "rect") =>
        LET a == fnArgs.self.align
            r == fnRet.rect
            fw == RDiv(fnArgs.dest_width, fnArgs.object_width)
            fh == RDiv(fnArgs.dest_height, fnArgs.object_height)
        IN  IF a.tag = "None"
            THEN r = <<fnArgs.dest_x, fnArgs.dest_y, fnArgs.dest_width, fnArgs.dest_height>>
            ELSE \E f \in {fw, fh} :
                   /\ IF a.fit = "Meet"
                      THEN ~RLess(fw, f) /\ ~RLess(fh, f)
                      ELSE ~RLess(f, fw) /\ ~RLess(f, fh)
                   /\ r[3] = RMul(fnArgs.object_width, f)
                   /\ r[4] = RMul(fnArgs.object_height, f)
                   /\ Placed(XPart(a.align), r[1], fnArgs.dest_x, fnArgs.dest_width, r[3])
                   /\ Placed(YPart(a.align), r[2], fnArgs.dest_y, fnArgs.dest_height, r[4])

\* tests::aligns: xMaxYMid slice of 1 x 10 into 10 x 1 at (0, 0)
C10_Witness ==
    /\ fnArgs.fn = "compute"
    /\ fnRet.tag = "rect"
    /\ fnArgs.self.align = Aligned("XmaxYmid", "Slice")
    /\ fnArgs.object_width = R(1) /\ fnArgs.object_height = R(10)
    /\ fnArgs.dest_x = R(0) /\ fnArgs.dest_y = R(0)
    /\ fnArgs.dest_width = R(10) /\ fnArgs.dest_height = R(1)
    /\ fnRet.rect = <<R(0), Rat(-99, 2), R(10), R(100)>>

(***************************************************************************)
(* Values the pattern fields hold: lengths, view boxes, matrices           *)
(***************************************************************************)
\* length.rs: RsvgLength { length, unit, dir }
RsvgLength_new(l, unit, dir) == [length |-> l, unit |-> unit, dir |-> dir]

\* RsvgLength::parse ("0", dir): a Token::Number, so LengthUnit::Default
RsvgLength_parse_0(dir) == RsvgLength_new(R(0), "Default", dir)

\* the square root of a rational that is a perfect square
RSqrt(r) ==
    LET n == CHOOSE k \in 0..r[1] : k * k = r[1]
        d == CHOOSE k \in 1..r[2] : k * k = r[2]
    IN  Rat(n, d)

\* viewport_percentage (x, y): sqrt (x * x + y * y) / SQRT_2
viewport_percentage(x, y) == RSqrt(RDiv(RAdd(RMul(x, x), RMul(y, y)), R(2)))

\* RsvgViewBox: a rectangle and whether it is active
RsvgViewBox_new_inactive ==
    [rect |-> [x |-> R(0), y |-> R(0), width |-> R(0), height |-> R(0)],
     active |-> FALSE]

\* cairo::Matrix
Matrix(xx, yx, xy, yy, x0, y0) ==
    [xx |-> xx, yx |-> yx, xy |-> xy, yy |-> yy, x0 |-> x0, y0 |-> y0]

Matrix_identity == Matrix(R(1), R(0), R(0), R(1), R(0), R(0))

\* cairo::Matrix::multiply (a, b): a applied first, then b
Matrix_multiply(a, b) ==
    Matrix(RAdd(RMul(a.xx, b.xx), RMul(a.yx, b.xy)),
           RAdd(RMul(a.xx, b.yx), RMul(a.yx, b.yy)),
           RAdd(RMul(a.xy, b.xx), RMul(a.yy, b.xy)),
           RAdd(RMul(a.xy, b.yx), RMul(a.yy, b.yy)),
           RAdd(RAdd(RMul(a.x0, b.xx), RMul(a.y0, b.xy)), b.x0),
           RAdd(RAdd(RMul(a.x0, b.yx), RMul(a.y0, b.yy)), b.y0))

\* m.translate (tx, ty) and m.scale (sx, sy): the new transformation first
Matrix_translate(m, tx, ty) ==
    Matrix_multiply(Matrix(R(1), R(0), R(0), R(1), tx, ty), m)
Matrix_scale(m, sx, sy) ==
    Matrix_multiply(Matrix(sx, R(0), R(0), sy, R(0), R(0)), m)

(***************************************************************************)
(* pattern.rs: struct Pattern and its resolution                           *)
(***************************************************************************)
OptionFields ==
    {"obj_bbox", "obj_cbbox", "vbox", "preserve_aspect_ratio", "affine",
     "x", "y", "width", "height"}

\* rsvg_pattern_node_has_children
pattern_node_has_children(c_node) == nodes[c_node].has_children

is_resolved(self) ==
    /\ is_some(self.obj_bbox)
    /\ is_some(self.obj_cbbox)
    /\ is_some(self.vbox)
    /\ is_some(self.preserve_aspect_ratio)
    /\ is_some(self.affine)
    /\ is_some(self.x)
    /\ is_some(self.y)
    /\ is_some(self.width)
    /\ is_some(self.height)
    /\ pattern_node_has_children(self.c_node)

\* if o.is_none () { o = v; }
OrSet(o, v) == IF is_none(o) THEN v ELSE o

resolve_from_defaults_mutant(self) ==
    [obj_bbox              |-> Some(TRUE),
     obj_cbbox             |-> OrSet(self.obj_cbbox, Some(FALSE)),
     vbox                  |-> OrSet(self.vbox, Some(RsvgViewBox_new_inactive)),
     preserve_aspect_ratio |-> OrSet(self.preserve_aspect_ratio, Some(AspectRatio_default)),
     affine                |-> OrSet(self.affine, Some(Matrix_identity)),
     fallback              |-> None,
     x                     |-> OrSet(self.x, Some(RsvgLength_parse_0("Horizontal"))),
     y                     |-> OrSet(self.y, Some(RsvgLength_parse_0("Horizontal"))),
     width                 |-> OrSet(self.width, Some(RsvgLength_parse_0("Horizontal"))),
     height                |-> OrSet(self.height, Some(RsvgLength_parse_0("Horizontal"))),
     c_node                |-> self.c_node]

resolve_from_defaults(self) ==
    [obj_bbox              |-> OrSet(self.obj_bbox, Some(TRUE)),
     obj_cbbox             |-> OrSet(self.obj_cbbox, Some(FALSE)),
     vbox                  |-> OrSet(self.vbox, Some(RsvgViewBox_new_inactive)),
     preserve_aspect_ratio |-> OrSet(self.preserve_aspect_ratio, Some(AspectRatio_default)),
     affine                |-> OrSet(self.affine, Some(Matrix_identity)),
     fallback              |-> None,
     x                     |-> OrSet(self.x, Some(RsvgLength_parse_0("Horizontal"))),
     y                     |-> OrSet(self.y, Some(RsvgLength_parse_0("Horizontal"))),
     width                 |-> OrSet(self.width, Some(RsvgLength_parse_0("Horizontal"))),
     height                |-> OrSet(self.height, Some(RsvgLength_parse_0("Horizontal"))),
     c_node                |-> self.c_node]

resolve_from_fallback(self, fallback) ==
    [obj_bbox              |-> OrSet(self.obj_bbox, fallback.obj_bbox),
     obj_cbbox             |-> OrSet(self.obj_cbbox, fallback.obj_cbbox),
     vbox                  |-> OrSet(self.vbox, fallback.vbox),
     preserve_aspect_ratio |-> OrSet(self.preserve_aspect_ratio, fallback.preserve_aspect_ratio),
     affine                |-> OrSet(self.affine, fallback.affine),
     fallback              |-> OrSet(self.fallback, fallback.fallback),
     x                     |-> OrSet(self.x, fallback.x),
     y                     |-> OrSet(self.y, fallback.y),
     width                 |-> OrSet(self.width, fallback.width),
     height                |-> OrSet(self.height, fallback.height),
     c_node                |-> IF ~pattern_node_has_children(self.c_node)
                               THEN fallback.c_node ELSE self.c_node]

\* impl Clone for Pattern
Pattern_clone(self) ==
    [obj_bbox              |-> self.obj_bbox,
     obj_cbbox             |-> self.obj_cbbox,
     vbox                  |-> self.vbox,
     preserve_aspect_ratio |-> self.preserve_aspect_ratio,
     affine                |-> self.affine,
     fallback              |-> self.fallback,
     x                     |-> self.x,
     y                     |-> self.y,
     width                 |-> self.width,
     height                |-> self.height,
     c_node                |-> self.c_node]

(***************************************************************************)
(* The fallback source.  drawing_ctx::acquire_node looks a node up by id   *)
(* and hands out a handle to be released; a node of another kind carries   *)
(* no pattern.                                                             *)
(***************************************************************************)
NullNode == "null"

acquire_node(name) == IF name \in DOMAIN nodes THEN name ELSE NullNode

\* a fresh snapshot of the node's pattern, or null (None here)
rsvg_pattern_node_to_rust_pattern(node) ==
    IF nodes[node].is_pattern THEN Some(nodes[node].pattern) ELSE None

\* NodeFallbackSource::get_fallback: the acquired_nodes it leaves and the
\* Option<Box<Pattern>> it returns
get_fallback_mutant(acquired, name) ==
    LET fallback_node == acquire_node(name) IN
    IF fallback_node = NullNode
    THEN [acquired_nodes |-> acquired, node |-> NullNode, ret |-> None]
    ELSE IF is_none(rsvg_pattern_node_to_rust_pattern(fallback_node))
         THEN [acquired_nodes |-> acquired, node |-> fallback_node, ret |-> None]
         ELSE [acquired_nodes |-> Append(acquired, fallback_node),
               node |-> fallback_node,
               ret |-> rsvg_pattern_node_to_rust_pattern(fallback_node)]

get_fallback(acquired, name) ==
    LET fallback_node == acquire_node(name) IN
    IF fallback_node = NullNode
    THEN [acquired_nodes |-> acquired, node |-> NullNode, ret |-> None]
    ELSE [acquired_nodes |-> Append(acquired, fallback_node),
          node |-> fallback_node,
          ret |-> rsvg_pattern_node_to_rust_pattern(fallback_node)]

\* what acquire_node adds to the log of node calls
AcquireLog(got) ==
    IF got.node = NullNode THEN <<>> ELSE <<[op |-> "acquire", node |-> got.node]>>

RECURSIVE Reverse(_)
Reverse(q) == IF q = <<>> THEN <<>> ELSE Append(Reverse(Tail(q)), Head(q))

\* impl Drop for NodeFallbackSource: pop and release until empty
DropReleases_mutant(acquired) ==
    [i \in 1..Len(acquired) |-> [op |-> "release", node |-> acquired[i]]]

DropReleases(acquired) ==
    [i \in 1..Len(acquired) |-> [op |-> "release", node |-> Reverse(acquired)[i]]]

(***************************************************************************)
(* The drawing context: a stack of view boxes and a stack of states (the   *)
(* last is the current one), the cairo context in force and its source.    *)
(***************************************************************************)
get_view_box_size(ctx) == ctx.view_boxes[Len(ctx.view_boxes)]
push_view_box(ctx, w, h) == [ctx EXCEPT !.view_boxes = Append(@, <<w, h>>)]
pop_view_box(ctx) == [ctx EXCEPT !.view_boxes = SubSeq(@, 1, Len(@) - 1)]
get_dpi(ctx) == ctx.dpi
get_normalized_font_size(ctx) == ctx.font_size
get_current_state_affine(ctx) == ctx.states[Len(ctx.states)]
set_current_state_affine(ctx, m) == [ctx EXCEPT !.states[Len(ctx.states)] = m]
state_push(ctx) == [ctx EXCEPT !.states = Append(@, @[Len(@)])]
state_pop(ctx) == [ctx EXCEPT !.states = SubSeq(@, 1, Len(@) - 1)]
get_cairo_context(ctx) == ctx.cr
set_cairo_context(ctx, cr) == [ctx EXCEPT !.cr = cr]
\* the children of node drawn on the context in force, under the current affine
node_draw_children(ctx, node) ==
    [ctx EXCEPT !.drawn = Append(@, [node |-> node, cr |-> ctx.cr,
                                     affine |-> get_current_state_affine(ctx)])]

\* length.rs: RsvgLength::normalize
normalize(self, ctx) ==
    CASE self.unit = "Default" -> self.length
      [] self.unit = "Percent" ->
           (LET wh == get_view_box_size(ctx) IN
            CASE self.dir = "Horizontal" -> RMul(self.length, wh[1])
              [] self.dir = "Vertical"   -> RMul(self.length, wh[2])
              [] self.dir = "Both"       ->
                   RMul(self.length, viewport_percentage(wh[1], wh[2])))
      [] self.unit = "FontEm" -> RMul(self.length, get_normalized_font_size(ctx))
      [] self.unit = "FontEx" ->
           RDiv(RMul(self.length, get_normalized_font_size(ctx)), R(2))
      [] self.unit = "Inch" ->
           (LET dpi == get_dpi(ctx) IN
            CASE self.dir = "Horizontal" -> RMul(self.length, dpi[1])
              [] self.dir = "Vertical"   -> RMul(self.length, dpi[2])
              [] self.dir = "Both"       ->
                   RMul(self.length, viewport_percentage(dpi[1], dpi[2])))
      [] self.unit \in {"RelativeLarger", "RelativeSmaller"} -> R(0)

\* f64 as i32: the fraction is dropped
as_i32(r) == IF r[1] >= 0 THEN r[1] \div r[2] ELSE -((-r[1]) \div r[2])

RAbs(r) == <<Abs(r[1]), r[2]>>

\* x < DBL_EPSILON for x >= 0.  DBL_EPSILON is 2^-52; a rational of the
\* model has a denominator below 2^31, so it is below 2^-52 only when zero.
LessThanDblEpsilon(r) == r[1] = 0

(***************************************************************************)
(* pattern.rs: set_pattern_on_draw_context, after its assertion.           *)
(* The value is the drawing context it leaves and how it left.             *)
(***************************************************************************)
\* pattern_x .. pattern_height, normalized inside the 1 x 1 view box when
\* obj_bbox is set
SP_Normalized(p, ctx0) ==
    LET ctx1 == IF unwrap(p.obj_bbox) THEN push_view_box(ctx0, R(1), R(1)) ELSE ctx0
    IN  [x      |-> normalize(unwrap(p.x), ctx1),
         y      |-> normalize(unwrap(p.y), ctx1),
         width  |-> normalize(unwrap(p.width), ctx1),
         height |-> normalize(unwrap(p.height), ctx1)]

\* the drawing context once that view box is popped again
SP_AfterNormalize_mutant(p, ctx0) ==
    IF unwrap(p.obj_bbox)
    THEN push_view_box(ctx0, R(1), R(1))
    ELSE ctx0

SP_AfterNormalize(p, ctx0) ==
    IF unwrap(p.obj_bbox)
    THEN pop_view_box(push_view_box(ctx0, R(1), R(1)))
    ELSE ctx0

\* the first scwscale and schscale: the lengths of taffine's columns
SP_Scales(p, ctx) ==
    LET taffine == Matrix_multiply(unwrap(p.affine), get_current_state_affine(ctx))
    IN  [scwscale |-> RSqrt(RAdd(RMul(taffine.xx, taffine.xx), RMul(taffine.xy, taffine.xy))),
         schscale |-> RSqrt(RAdd(RMul(taffine.yx, taffine.yx), RMul(taffine.yy, taffine.yy)))]

\* bbwscale, bbhscale, pw, ph, scaled_width and scaled_height
SP_Tile(p, bb, n, sc) ==
    LET bbwscale == IF unwrap(p.obj_bbox) THEN bb.rect.width ELSE R(1)
        bbhscale == IF unwrap(p.obj_bbox) THEN bb.rect.height ELSE R(1)
    IN  [pw |-> as_i32(RMul(RMul(n.width, bbwscale), sc.scwscale)),
         ph |-> as_i32(RMul(RMul(n.height, bbhscale), sc.schscale)),
         scaled_width  |-> RMul(n.width, bbwscale),
         scaled_height |-> RMul(n.height, bbhscale)]

\* the second scwscale and schscale
SP_Rescale(t) ==
    [scwscale |-> RDiv(R(t.pw), t.scaled_width),
     schscale |-> RDiv(R(t.ph), t.scaled_height)]

\* the pattern coordinate system, before the rescaling
SP_Affine(p, bb, n) ==
    Matrix_multiply(
        IF unwrap(p.obj_bbox)
        THEN Matrix_translate(Matrix_identity,
                 RAdd(bb.rect.x, RMul(n.x, bb.rect.width)),
                 RAdd(bb.rect.y, RMul(n.y, bb.rect.height)))
        ELSE Matrix_translate(Matrix_identity, n.x, n.y),
        unwrap(p.affine))

\* the matrix of a view box fitted by compute
SP_ViewBoxMatrix(rect, fitted) ==
    Matrix(RDiv(fitted[3], rect.width), R(0), R(0), RDiv(fitted[4], rect.height),
           RSub(fitted[1], RDiv(RMul(rect.x, fitted[3]), rect.width)),
           RSub(fitted[2], RDiv(RMul(rect.y, fitted[4]), rect.height)))

\* the pattern contents coordinate system, before the rescaling
SP_Caffine(p, bb, t) ==
    IF unwrap(p.vbox).active
    THEN SP_ViewBoxMatrix(unwrap(p.vbox).rect,
             compute(unwrap(p.preserve_aspect_ratio),
                     unwrap(p.vbox).rect.width, unwrap(p.vbox).rect.height,
                     R(0), R(0), t.scaled_width, t.scaled_height))
    ELSE IF unwrap(p.obj_cbbox)
         THEN Matrix_scale(Matrix_identity, bb.rect.width, bb.rect.height)
         ELSE Matrix_identity

SP_PushedViewBox(p) == unwrap(p.vbox).active \/ unwrap(p.obj_cbbox)

\* the view box pushed for the contents
SP_PushViewBox(p, ctx) ==
    IF unwrap(p.vbox).active
    THEN push_view_box(ctx, unwrap(p.vbox).rect.width, unwrap(p.vbox).rect.height)
    ELSE IF unwrap(p.obj_cbbox) THEN push_view_box(ctx, R(1), R(1)) ELSE ctx

SP_NeedsRescale(r) == r.scwscale # R(1) \/ r.schscale # R(1)

\* 1.0 / 0.0 is no rational: the placement matrix is then not finite
SP_Finite(r) == ~SP_NeedsRescale(r) \/ (r.scwscale # R(0) /\ r.schscale # R(0))

SP_CaffineRescaled(caffine, r) ==
    IF SP_NeedsRescale(r)
    THEN Matrix_multiply(caffine, Matrix_scale(Matrix_identity, r.scwscale, r.schscale))
    ELSE caffine

SP_AffineRescaled(affine, r) ==
    IF SP_NeedsRescale(r) /\ SP_Finite(r)
    THEN Matrix_multiply(
             Matrix_scale(Matrix_identity, RDiv(R(1), r.scwscale), RDiv(R(1), r.schscale)),
             affine)
    ELSE affine

\* "Draw to another surface" .. "Return to the original coordinate system"
SP_DrawChildren(p, ctx, caffine, cr_save) ==
    set_cairo_context(
        state_pop(
            node_draw_children(
                set_current_state_affine(
                    set_cairo_context(state_push(ctx), "cr_pattern"),
                    caffine),
                p.c_node)),
        cr_save)

SP_PopViewBox_mutant(p, ctx) == IF unwrap(p.vbox).active THEN pop_view_box(ctx) ELSE ctx

SP_PopViewBox(p, ctx) == IF SP_PushedViewBox(p) THEN pop_view_box(ctx) ELSE ctx

\* cr_save.set_source (&surface_pattern)
SP_SetSource(ctx, t, r, affine) ==
    [ctx EXCEPT !.source = Some([surface |-> [width |-> t.pw, height |-> t.ph],
                                 finite |-> SP_Finite(r),
                                 placement |-> affine,
                                 scwscale |-> r.scwscale,
                                 schscale |-> r.schscale])]

\* the part after the early return
SP_Draw(p, ctx, bb, n, t) ==
    SP_SetSource(
        SP_PopViewBox(p,
            SP_DrawChildren(p, SP_PushViewBox(p, ctx),
                SP_CaffineRescaled(SP_Caffine(p, bb, t), SP_Rescale(t)),
                get_cairo_context(ctx))),
        t, SP_Rescale(t),
        SP_AffineRescaled(SP_Affine(p, bb, n), SP_Rescale(t)))

SP_EarlyReturn(t) ==
    \/ LessThanDblEpsilon(RAbs(t.scaled_width))
    \/ LessThanDblEpsilon(RAbs(t.scaled_height))

set_pattern_on_draw_context(p, ctx0, bb) ==
    LET n == SP_Normalized(p, ctx0)
        ctx == SP_AfterNormalize(p, ctx0)
    IN  IF SP_EarlyReturn(SP_Tile(p, bb, n, SP_Scales(p, ctx)))
        THEN [exit |-> "early", draw_ctx |-> ctx]
        ELSE [exit |-> "drawn",
              draw_ctx |-> SP_Draw(p, ctx, bb, n, SP_Tile(p, bb, n, SP_Scales(p, ctx)))]

(***************************************************************************)
(* The documents and scenes the pattern calls are checked on               *)
(***************************************************************************)
MaxIters == 4

NodeNames == {"a", "b", "c"}

\* the node whose pattern the caller paints with
Entity == "a"

\* xlink:href of a pattern: none, a node of the document, or an id that
\* no node has
FallbackNames == {None} \cup {Some(n) : n \in NodeNames} \cup {Some("zz")}

\* what each node writes in an attribute it sets
AttrOf(n) ==
    CASE n = "a" ->
           [obj_bbox |-> FALSE, obj_cbbox |-> TRUE,
            vbox |-> [rect |-> [x |-> R(1), y |-> R(1), width |-> R(1), height |-> R(1)],
                      active |-> FALSE],
            preserve_aspect_ratio |-> [defer |-> TRUE, align |-> Aligned("XminYmin", "Slice")],
            affine |-> Matrix(R(2), R(0), R(0), R(2), R(0), R(0)),
            x |-> RsvgLength_new(R(1), "Default", "Horizontal"),
            y |-> RsvgLength_new(R(3), "Default", "Vertical"),
            width |-> RsvgLength_new(Rat(13, 10), "Default", "Horizontal"),
            height |-> RsvgLength_new(R(2), "Default", "Vertical")]
      [] n = "b" ->
           [obj_bbox |-> TRUE, obj_cbbox |-> FALSE,
            vbox |-> [rect |-> [x |-> R(0), y |-> R(0), width |-> R(10), height |-> R(5)],
                      active |-> TRUE],
            preserve_aspect_ratio |-> [defer |-> FALSE, align |-> Aligned("XmaxYmid", "Meet")],
            affine |-> Matrix(R(0), R(1), R(-1), R(0), R(0), R(0)),
            x |-> RsvgLength_new(Rat(1, 10), "Percent", "Horizontal"),
            y |-> RsvgLength_new(Rat(1, 5), "Percent", "Vertical"),
            width |-> RsvgLength_new(Rat(1, 2), "Percent", "Horizontal"),
            height |-> RsvgLength_new(Rat(1, 4), "Percent", "Vertical")]
      [] n = "c" ->
           [obj_bbox |-> FALSE, obj_cbbox |-> FALSE,
            vbox |-> [rect |-> [x |-> R(1), y |-> R(1), width |-> R(4), height |-> R(4)],
                      active |-> TRUE],
            preserve_aspect_ratio |-> [defer |-> FALSE, align |-> AlignNone],
            affine |-> Matrix(R(1), R(0), R(0), R(1), R(3), R(4)),
            x |-> RsvgLength_new(Rat(1, 10), "Inch", "Horizontal"),
            y |-> RsvgLength_new(Rat(1, 2), "FontEm", "Vertical"),
            width |-> RsvgLength_new(Rat(1, 2), "Default", "Horizontal"),
            height |-> RsvgLength_new(R(1), "FontEx", "Vertical")]

HalfA == {"obj_bbox", "vbox", "affine", "x", "width"}

\* the sets of attributes a pattern element may set
AttrSets(n) ==
    IF n = "c" THEN {{}, OptionFields}
    ELSE {{}, HalfA, OptionFields \ HalfA, OptionFields}

\* pattern_new for node n setting the attributes in set
PatternOf(n, set, fallback_name) ==
    LET v == AttrOf(n)
        opt(f, x) == IF f \in set THEN Some(x) ELSE None
    IN  [obj_bbox              |-> opt("obj_bbox", v.obj_bbox),
         obj_cbbox             |-> opt("obj_cbbox", v.obj_cbbox),
         vbox                  |-> opt("vbox", v.vbox),
         preserve_aspect_ratio |-> opt("preserve_aspect_ratio", v.preserve_aspect_ratio),
         affine                |-> opt("affine", v.affine),
         fallback              |-> fallback_name,
         x                     |-> opt("x", v.x),
         y                     |-> opt("y", v.y),
         width                 |-> opt("width", v.width),
         height                |-> opt("height", v.height),
         c_node                |-> n]

\* the nodes an id may name: patterns, and a node of another kind
NodesNamed(n) ==
    {[is_pattern |-> TRUE, has_children |-> ch, pattern |-> PatternOf(n, set, fb)] :
        ch \in BOOLEAN, set \in AttrSets(n), fb \in FallbackNames}
    \cup (IF n = Entity THEN {}
          ELSE {[is_pattern |-> FALSE, has_children |-> FALSE,
                 pattern |-> PatternOf(n, {}, None)]})

Rect(x, y, w, h) == [rect |-> [x |-> x, y |-> y, width |-> w, height |-> h]]

\* the bounding box painted and the affine in force
Scenes ==
    {[bbox |-> Rect(R(10), R(20), R(8), R(4)), affine |-> Matrix_identity],
     [bbox |-> Rect(R(10), R(20), R(8), R(4)),
      affine |-> Matrix(R(2), R(0), R(0), R(3), R(0), R(0))],
     [bbox |-> Rect(R(0), R(0), R(0), R(4)), affine |-> Matrix_identity]}

DrawCtxOf(affine) ==
    [view_boxes |-> <<<<R(100), R(50)>>>>,
     states |-> <<affine>>,
     dpi |-> <<R(90), R(90)>>,
     font_size |-> R(12),
     cr |-> "cr",
     drawn |-> <<>>,
     source |-> None]

(***************************************************************************)
(* pattern_resolve_fallbacks_and_set_pattern, step by step                 *)
(***************************************************************************)
Init ==
    /\ fnArgs = NoArgs
    /\ fnRet = NoRet
    /\ pc = "idle"
    /\ \E na \in NodesNamed("a"), nb \in NodesNamed("b"), nc \in NodesNamed("c") :
         nodes = [n \in NodeNames |->
                    CASE n = "a" -> na [] n = "b" -> nb [] n = "c" -> nc]
    /\ pattern = nodes[Entity].pattern
    /\ result = <<>>
    /\ acquired_nodes = <<>>
    /\ node_log = <<>>
    /\ iters = 0
    /\ exit = "none"
    /\ \E sc \in Scenes : bbox = sc.bbox /\ draw_ctx = DrawCtxOf(sc.affine)

\* NodeFallbackSource::new and the clone at the head of resolve_pattern
Call ==
    /\ pc = "idle"
    /\ acquired_nodes' = <<>>
    /\ result' = Pattern_clone(pattern)
    /\ pc' = "resolve"
    /\ UNCHANGED <<fnVars, nodes, pattern, node_log, iters, bbox, exit, draw_ctx>>

\* what the loop body gets from the fallback source
Lookup ==
    IF is_some(result.fallback)
    THEN get_fallback(acquired_nodes, unwrap(result.fallback))
    ELSE [acquired_nodes |-> acquired_nodes, node |-> NullNode, ret |-> None]

\* a turn of the loop that finds a fallback pattern
ResolveFromFallback_mutant ==
    /\ pc = "resolve"
    /\ ~is_resolved(result)
    /\ iters < MaxIters
    /\ is_some(Lookup.ret)
    /\ result' = resolve_from_fallback(result, unwrap(Lookup.ret))
    /\ pattern' = result'
    /\ acquired_nodes' = Lookup.acquired_nodes
    /\ node_log' = node_log \o AcquireLog(Lookup)
    /\ iters' = iters + 1
    /\ UNCHANGED <<fnVars, pc, nodes, bbox, exit, draw_ctx>>

ResolveFromFallback ==
    /\ pc = "resolve"
    /\ ~is_resolved(result)
    /\ iters < MaxIters
    /\ is_some(Lookup.ret)
    /\ result' = resolve_from_fallback(result, unwrap(Lookup.ret))
    /\ acquired_nodes' = Lookup.acquired_nodes
    /\ node_log' = node_log \o AcquireLog(Lookup)
    /\ iters' = iters + 1
    /\ UNCHANGED <<fnVars, pc, nodes, pattern, bbox, exit, draw_ctx>>

\* a turn of the loop that finds none: defaults, and break
ResolveFromDefaults ==
    /\ pc = "resolve"
    /\ ~is_resolved(result)
    /\ is_none(Lookup.ret)
    /\ result' = resolve_from_defaults(result)
    /\ acquired_nodes' = Lookup.acquired_nodes
    /\ node_log' = node_log \o AcquireLog(Lookup)
    /\ iters' = iters + 1
    /\ pc' = "set"
    /\ UNCHANGED <<fnVars, nodes, pattern, bbox, exit, draw_ctx>>

\* the loop condition fails: resolve_pattern returns result
ResolveReturn ==
    /\ pc = "resolve"
    /\ is_resolved(result)
    /\ pc' = "set"
    /\ UNCHANGED <<fnVars, nodes, pattern, result, acquired_nodes, node_log, iters,
                   bbox, exit, draw_ctx>>

\* assert! (pattern.is_resolved ()) fails: the panic unwinds through the
\* caller, or aborts at once when the build does not unwind
SetPatternPanics ==
    /\ pc = "set"
    /\ ~is_resolved(result)
    /\ exit' = "panic"
    /\ pc' \in {"drop", "aborted"}
    /\ UNCHANGED <<fnVars, nodes, pattern, result, acquired_nodes, node_log, iters,
                   bbox, draw_ctx>>

SetPattern ==
    /\ pc = "set"
    /\ is_resolved(result)
    /\ LET out == set_pattern_on_draw_context(result, draw_ctx, bbox) IN
         /\ exit' = out.exit
         /\ draw_ctx' = out.draw_ctx
    /\ pc' = "drop"
    /\ UNCHANGED <<fnVars, nodes, pattern, result, acquired_nodes, node_log, iters, bbox>>

\* fallback_source goes out of scope
DropFallbackSource_mutant ==
    /\ pc = "drop"
    /\ node_log' = node_log \o DropReleases(acquired_nodes)
    /\ acquired_nodes' = <<>>
    /\ nodes' = [n \in NodeNames |->
                  IF \E i \in 1..Len(acquired_nodes) : acquired_nodes[i] = n
                  THEN [nodes[n] EXCEPT !.is_pattern = FALSE]
                  ELSE nodes[n]]
    /\ pc' = IF exit = "panic" THEN "aborted" ELSE "returned"
    /\ UNCHANGED <<fnVars, pattern, result, iters, bbox, exit, draw_ctx>>

DropFallbackSource ==
    /\ pc = "drop"
    /\ node_log' = node_log \o DropReleases(acquired_nodes)
    /\ acquired_nodes' = <<>>
    /\ pc' = IF exit = "panic" THEN "aborted" ELSE "returned"
    /\ UNCHANGED <<fnVars, nodes, pattern, result, iters, bbox, exit, draw_ctx>>

Next ==
    \/ Call
    \/ ResolveFromFallback
    \/ ResolveFromDefaults
    \/ ResolveReturn
    \/ SetPatternPanics
    \/ SetPattern
    \/ DropFallbackSource

Spec == Init /\ [][Next]_vars

(***************************************************************************)
(* Properties of the fallback walk                                         *)
(***************************************************************************)
\* the positions where resolve_pattern has returned
Resolved == pc \in {"set", "drop", "returned", "aborted"}

\* how many times the call did op on node n
Count(op, n) ==
    Cardinality({i \in DOMAIN node_log : node_log[i] = [op |-> op, node |-> n]})

\* a -> b -> c, all of them patterns, c without a fallback name
ChainABC ==
    /\ \A n \in NodeNames : nodes[n].is_pattern
    /\ nodes["a"].pattern.fallback = Some("b")
    /\ nodes["b"].pattern.fallback = Some("c")
    /\ nodes["c"].pattern.fallback = None

\* the defaults of the SVG specification; the direction of a default
\* length is left open
Defaults ==
    [obj_bbox |-> TRUE, obj_cbbox |-> FALSE, vbox |-> RsvgViewBox_new_inactive,
     preserve_aspect_ratio |-> [defer |-> FALSE, align |-> Aligned("XmidYmid", "Meet")],
     affine |-> Matrix_identity,
     x |-> [length |-> R(0), unit |-> "Default"],
     y |-> [length |-> R(0), unit |-> "Default"],
     width |-> [length |-> R(0), unit |-> "Default"],
     height |-> [length |-> R(0), unit |-> "Default"]]

LengthFields == {"x", "y", "width", "height"}

\* field f of got is the first of a, b, c that sets it, else the default
MergedField(f, got) ==
    LET A == nodes["a"].pattern[f]
        B == nodes["b"].pattern[f]
        C == nodes["c"].pattern[f]
    IN  /\ is_some(got)
        /\ IF is_some(A) THEN got = A
           ELSE IF is_some(B) THEN got = B
           ELSE IF is_some(C) THEN got = C
           ELSE IF f \in LengthFields
                THEN [length |-> unwrap(got).length, unit |-> unwrap(got).unit] = Defaults[f]
                ELSE unwrap(got) = Defaults[f]

\* C1: on a chain a -> b -> c where c names no fallback, resolve_pattern
\* ends within the three turns such a chain needs (b, c, defaults), and
\* what it returns has every field set, to the value of the first of a, b,
\* c that sets it and to the default when none does.
C1_ChainMerge ==
    ChainABC =>
        /\ iters <= 3
        /\ Resolved => \A f \in OptionFields : MergedField(f, result[f])

\* the fallback names, followed from node n, come back to a name in seen
RECURSIVE Revisits(_, _)
Revisits(n, seen) ==
    IF n \notin NodeNames \/ ~nodes[n].is_pattern THEN FALSE
    ELSE IF n \in seen THEN TRUE
    ELSE IF is_none(nodes[n].pattern.fallback) THEN FALSE
    ELSE Revisits(unwrap(nodes[n].pattern.fallback), seen \cup {n})

CyclicChain == Revisits(Entity, {})

\* C2: when the entity's fallback chain comes back to itself the walk
\* stops at the first name it meets again: no name is looked up a second
\* time, and the loop takes no more turns than there are names.
C2_CycleStops ==
    CyclicChain =>
        /\ \A n \in NodeNames : Count("acquire", n) <= 1
        /\ iters <= Cardinality(NodeNames)

\* C3: when pattern_resolve_fallbacks_and_set_pattern has returned, every
\* acquire_node of the call is matched by one release_node of the same
\* node and nothing is left acquired; at no time is a node released more
\* often than it was acquired.
C3_ReleasedExactlyOnce ==
    /\ \A n \in NodeNames : Count("release", n) <= Count("acquire", n)
    /\ pc = "returned" =>
         /\ acquired_nodes = <<>>
         /\ \A n \in NodeNames : Count("release", n) = Count("acquire", n)

\* a return through the early exit, after a looked-up node that is no
\* pattern ended the walk
C3_Witness ==
    /\ pc = "returned"
    /\ exit = "early"
    /\ ~nodes["b"].is_pattern
    /\ node_log = <<[op |-> "acquire", node |-> "b"], [op |-> "release", node |-> "b"]>>

\* C4: what resolve_pattern returns is resolved, so the assertion at the
\* head of set_pattern_on_draw_context holds.
C4_ResultIsResolved == pc = "set" => is_resolved(result)

\* C5: once called, resolve_pattern leaves every field of the caller's
\* pattern, its fallback name and its node included, as it was.
C5_EntityUnchanged == pc # "idle" => pattern = nodes[Entity].pattern

\* resolve_pattern has returned a working copy that a fallback changed
C5_Witness ==
    /\ Resolved
    /\ iters >= 1
    /\ result # pattern
    /\ result.c_node # pattern.c_node

(***************************************************************************)
(* length.rs: RsvgLength::parse.  A string is the sequence of its lexical  *)
(* pieces: a number, an identifier, "%" or a run of whitespace (Blank).    *)
(***************************************************************************)
LengthUnit ==
    {"Default", "Percent", "FontEm", "FontEx", "Inch", "RelativeLarger", "RelativeSmaller"}

LengthDir == {"Horizontal", "Vertical", "Both"}

POINTS_PER_INCH == R(72)
CM_PER_INCH == Rat(254, 100)
MM_PER_INCH == Rat(254, 10)
PICA_PER_INCH == R(6)

\* the number pieces and the value the tokenizer reads from each
NumberPieces == {"50.0", "72", "-254", "22.5"}

NumberValue(text) ==
    CASE text = "50.0" -> R(50)
      [] text = "72"   -> R(72)
      [] text = "-254" -> R(-254)
      [] text = "22.5" -> Rat(45, 2)

PercentSign == "%"

\* Parser::next: whitespace is skipped; a number directly followed by an
\* identifier is one Dimension token, by "%" one Percentage token whose
\* unit_value is the number over 100
RECURSIVE TokensFrom(_, _)
TokensFrom(s, i) ==
    IF i > Len(s) THEN <<>>
    ELSE IF s[i] = Blank THEN TokensFrom(s, i + 1)
    ELSE IF s[i] \in NumberPieces
    THEN IF i < Len(s) /\ s[i + 1] = PercentSign
         THEN <<[tok |-> "Percentage", unit_value |-> RDiv(NumberValue(s[i]), R(100))]>>
              \o TokensFrom(s, i + 2)
         ELSE IF i < Len(s) /\ s[i + 1] # Blank /\ s[i + 1] \notin NumberPieces
         THEN <<[tok |-> "Dimension", value |-> NumberValue(s[i]), unit |-> s[i + 1]]>>
              \o TokensFrom(s, i + 2)
         ELSE <<[tok |-> "Number", value |-> NumberValue(s[i])]>> \o TokensFrom(s, i + 1)
    ELSE IF s[i] = PercentSign THEN <<[tok |-> "Delim"]>> \o TokensFrom(s, i + 1)
    ELSE <<[tok |-> "Ident", cow |-> s[i]]>> \o TokensFrom(s, i + 1)

Tokens(s) == TokensFrom(s, 1)

\* the characters of the string
RECURSIVE StringOf(_)
StringOf(s) == IF s = <<>> THEN "" ELSE Head(s) \o StringOf(Tail(s))

\* 1.2f64.powf (power) for a whole power
RECURSIVE RPow(_, _)
RPow(b, k) ==
    IF k = 0 THEN R(1)
    ELSE IF k > 0 THEN RMul(b, RPow(b, k - 1))
    ELSE RDiv(RPow(b, k + 1), b)

NamedSizes ==
    <<"xx-small", "x-small", "small", "medium", "large", "x-large", "xx-large">>

IsNamedSize(name) == \E i \in DOMAIN NamedSizes : NamedSizes[i] = name

compute_named_size_mutant(name) ==
    IF IsNamedSize(name)
    THEN LET i == CHOOSE i \in DOMAIN NamedSizes : NamedSizes[i] = name
         IN  RDiv(RMul(R(12), RPow(Rat(12, 10), 4 - i)), POINTS_PER_INCH)
    ELSE Panic

\* the match on name, unreachable! () included
compute_named_size(name) ==
    IF IsNamedSize(name)
    THEN LET power == (CHOOSE i \in DOMAIN NamedSizes : NamedSizes[i] = name) - 4
         IN  RDiv(RMul(R(12), RPow(Rat(12, 10), power)), POINTS_PER_INCH)
    ELSE Panic

length_make_err == [ok |-> FALSE, err |-> "Parse"]

\* match unit.as_ref ()
DimensionLength_mutant(value, unit, dir) ==
    CASE unit = "em" -> Ok(RsvgLength_new(value, "FontEm", dir))
      [] unit = "ex" -> Ok(RsvgLength_new(value, "FontEx", dir))
      [] unit = "pt" -> Ok(RsvgLength_new(RDiv(value, POINTS_PER_INCH), "Inch", dir))
      [] unit = "in" -> Ok(RsvgLength_new(value, "Inch", dir))
      [] unit = "cm" -> Ok(RsvgLength_new(RDiv(value, MM_PER_INCH), "Inch", dir))
      [] unit = "mm" -> Ok(RsvgLength_new(RDiv(value, MM_PER_INCH), "Inch", dir))
      [] unit = "pc" -> Ok(RsvgLength_new(RDiv(value, PICA_PER_INCH), "Inch", dir))
      [] unit = "px" -> Ok(RsvgLength_new(value, "Default", dir))
      [] OTHER -> length_make_err

DimensionLength(value, unit, dir) ==
    CASE unit = "em" -> Ok(RsvgLength_new(value, "FontEm", dir))
      [] unit = "ex" -> Ok(RsvgLength_new(value, "FontEx", dir))
      [] unit = "pt" -> Ok(RsvgLength_new(RDiv(value, POINTS_PER_INCH), "Inch", dir))
      [] unit = "in" -> Ok(RsvgLength_new(value, "Inch", dir))
      [] unit = "cm" -> Ok(RsvgLength_new(RDiv(value, CM_PER_INCH), "Inch", dir))
      [] unit = "mm" -> Ok(RsvgLength_new(RDiv(value, MM_PER_INCH), "Inch", dir))
      [] unit = "pc" -> Ok(RsvgLength_new(RDiv(value, PICA_PER_INCH), "Inch", dir))
      [] unit = "px" -> Ok(RsvgLength_new(value, "Default", dir))
      [] OTHER -> length_make_err

\* match cow.as_ref (); a named size is computed from the whole string
IdentLength(cow, string, dir) ==
    CASE cow = "larger"  -> Ok(RsvgLength_new(R(0), "RelativeLarger", dir))
      [] cow = "smaller" -> Ok(RsvgLength_new(R(0), "RelativeSmaller", dir))
      [] IsNamedSize(cow) ->
           IF IsNamedSize(string)
           THEN Ok(RsvgLength_new(compute_named_size(string), "Inch", dir))
           ELSE Panic
      [] OTHER -> length_make_err

\* match *token
TokenLength(token, string, dir) ==
    CASE token.tok = "Number"     -> Ok(RsvgLength_new(token.value, "Default", dir))
      [] token.tok = "Percentage" -> Ok(RsvgLength_new(token.unit_value, "Percent", dir))
      [] token.tok = "Dimension"  -> DimensionLength(token.value, token.unit, dir)
      [] token.tok = "Ident"      -> IdentLength(token.cow, string, dir)
      [] OTHER -> length_make_err

\* parser.expect_exhausted ().map_err (|_| make_err ())?; Ok (length)
ExpectExhausted_mutant(tokens, length) == length

ExpectExhausted(tokens, length) ==
    IF length = Panic \/ ~length.ok THEN length
    ELSE IF Len(tokens) > 1 THEN length_make_err
    ELSE length

RsvgLength_parse(s, dir) ==
    IF Tokens(s) = <<>>
    THEN [ok |-> FALSE, err |-> "Parse"]
    ELSE ExpectExhausted(Tokens(s), TokenLength(Tokens(s)[1], StringOf(s), dir))

(***************************************************************************)
(* Calls of RsvgLength::parse on strings built piece by piece              *)
(***************************************************************************)
MaxPieces == 3

\* identifiers: the units, a unit that is none, the relative and the named
\* font sizes
IdentPieces ==
    {"px", "em", "ex", "in", "pt", "cm", "mm", "pc", "furlong", "larger", "smaller"}
    \cup {NamedSizes[i] : i \in DOMAIN NamedSizes}

Pieces == NumberPieces \cup IdentPieces \cup {PercentSign, Blank}

\* written one after the other, q would continue the identifier or the
\* number p instead of being a piece of its own
Glues(p, q) ==
    \/ p \in IdentPieces /\ q \in IdentPieces \cup NumberPieces
    \/ p \in NumberPieces /\ q \in NumberPieces

InitLengthParse ==
    /\ fnArgs = [fn |-> "length_parse", s |-> <<>>, dir |-> "Both"]
    /\ fnRet = NoRet
    /\ PatternOff

AppendPiece ==
    /\ fnArgs.fn = "length_parse"
    /\ fnRet = NoRet
    /\ Len(fnArgs.s) < MaxPieces
    /\ \E q \in Pieces :
         /\ fnArgs.s # <<>> => ~Glues(fnArgs.s[Len(fnArgs.s)], q)
         /\ fnArgs' = [fnArgs EXCEPT !.s = Append(@, q)]
    /\ UNCHANGED <<fnRet, patVars>>

CallLengthParse ==
    /\ fnArgs.fn = "length_parse"
    /\ fnRet = NoRet
    /\ \E dir \in LengthDir :
         /\ fnArgs' = [fnArgs EXCEPT !.dir = dir]
         /\ fnRet' = RsvgLength_parse(fnArgs.s, dir)
    /\ UNCHANGED patVars

NextLengthParse == AppendPiece \/ CallLengthParse

SpecLengthParse == InitLengthParse /\ [][NextLengthParse]_vars

(***************************************************************************)
(* Properties of RsvgLength::parse                                         *)
(***************************************************************************)
LengthParseReturned == fnArgs.fn = "length_parse" /\ fnRet # NoRet

LengthParseOk == LengthParseReturned /\ fnRet # Panic /\ fnRet.ok

\* the string without its whitespace
NonBlank(s) == SelectSeq(s, LAMBDA q : q # Blank)

\* unit suffix -> the unit of the result and what the number is divided by
UnitTable ==
    [px |-> <<"Default", R(1)>>, em |-> <<"FontEm", R(1)>>, ex |-> <<"FontEx", R(1)>>,
     in |-> <<"Inch", R(1)>>, pt |-> <<"Inch", R(72)>>, cm |-> <<"Inch", Rat(254, 100)>>,
     mm |-> <<"Inch", Rat(254, 10)>>, pc |-> <<"Inch", R(6)>>]

\* the magnitude and unit the claim gives for the pieces c
MappedLength(c) ==
    CASE Len(c) = 1 /\ c[1] \in NumberPieces ->
           <<[length |-> NumberValue(c[1]), unit |-> "Default"]>>
      [] Len(c) = 2 /\ c[1] \in NumberPieces /\ c[2] = PercentSign ->
           <<[length |-> RDiv(NumberValue(c[1]), R(100)), unit |-> "Percent"]>>
      [] Len(c) = 2 /\ c[1] \in NumberPieces /\ c[2] \in DOMAIN UnitTable ->
           <<[length |-> RDiv(NumberValue(c[1]), UnitTable[c[2]][2]),
              unit |-> UnitTable[c[2]][1]]>>
      [] c = <<"larger">>  -> <<[length |-> R(0), unit |-> "RelativeLarger"]>>
      [] c = <<"smaller">> -> <<[length |-> R(0), unit |-> "RelativeSmaller"]>>
      [] OTHER -> <<>>

\* C11: a length that parse returns carries the caller's axis, and its
\* magnitude and unit follow the table: number or px -> Default (v),
\* % -> Percent (v / 100), em, ex, in -> v, pt -> Inch (v / 72),
\* cm -> Inch (v / 2.54), mm -> Inch (v / 25.4), pc -> Inch (v / 6),
\* larger / smaller -> magnitude 0; the sign of v is kept.  (The named
\* sizes, which the table leaves out, are C14's.)
C11_ParsedLength ==
    LengthParseOk =>
        /\ fnRet.v.dir = fnArgs.dir
        /\ \/ NonBlank(fnArgs.s) = <<StringOf(fnArgs.s)>> /\ IsNamedSize(StringOf(fnArgs.s))
           \/ MappedLength(NonBlank(fnArgs.s)) =
                <<[length |-> fnRet.v.length, unit |-> fnRet.v.unit]>>

\* "-254cm" on the vertical axis is -100 inches, vertical
C11_Witness ==
    /\ LengthParseOk
    /\ fnArgs.s = <<"-254", "cm">>
    /\ fnArgs.dir = "Vertical"
    /\ fnRet.v = [length |-> R(-100), unit |-> "Inch", dir |-> "Vertical"]

\* the first token alone is a length
FirstTokenIsLength(t) ==
    \/ t.tok \in {"Number", "Percentage"}
    \/ t.tok = "Dimension" /\ t.unit \in DOMAIN UnitTable
    \/ t.tok = "Ident" /\ (t.cow \in {"larger", "smaller"} \/ IsNamedSize(t.cow))

\* the inputs C12 lists
MustFail(s) ==
    \/ s = <<>>
    \/ Len(s) = 2 /\ s[1] \in NumberPieces /\ s[2] \in IdentPieces \ DOMAIN UnitTable
    \/ Len(s) = 1 /\ s[1] \in IdentPieces /\ s[1] \notin {"larger", "smaller"}
         /\ ~IsNamedSize(s[1])
    \/ Len(Tokens(s)) > 1 /\ FirstTokenIsLength(Tokens(s)[1])

\* C12: parse returns the grammar error, and no length, for the empty
\* string, a number with an unknown unit, an unknown identifier, and any
\* input with tokens after its first length token.
C12_GrammarErrors ==
    LengthParseReturned /\ MustFail(fnArgs.s) => fnRet = length_make_err

\* the place of a named size in the order xx-small .. xx-large
NamedIndex(name) == CHOOSE i \in DOMAIN NamedSizes : NamedSizes[i] = name

\* 12 * 1.2^p / 72 for p = -3 .. 3, worked out by hand
NamedSizeValues ==
    <<Rat(125, 1296), Rat(25, 216), Rat(5, 36), Rat(1, 6), Rat(1, 5), Rat(6, 25),
      Rat(36, 125)>>

\* C14: parsing a named font size gives inches on the caller's axis, of
\* magnitude 12 * 1.2^p / 72 with p = -3 .. 3 for xx-small .. xx-large, and
\* greater than what parse gives for every name before it.
C14_NamedSizes ==
    (LengthParseReturned /\ Len(fnArgs.s) = 1 /\ IsNamedSize(fnArgs.s[1])) =>
        /\ fnRet # Panic
        /\ fnRet.ok
        /\ fnRet.v.unit = "Inch"
        /\ fnRet.v.dir = fnArgs.dir
        /\ fnRet.v.length = NamedSizeValues[NamedIndex(fnArgs.s[1])]
        /\ \A j \in 1..(NamedIndex(fnArgs.s[1]) - 1) :
             RLess(RsvgLength_parse(<<NamedSizes[j]>>, fnArgs.dir).v.length,
                   fnRet.v.length)

\* x-large parsed: 12 * 1.44 / 72 inches
C14_Witness ==
    /\ LengthParseReturned
    /\ fnArgs.s = <<"x-large">>
    /\ fnArgs.dir = "Horizontal"
    /\ fnRet = Ok([length |-> Rat(6, 25), unit |-> "Inch", dir |-> "Horizontal"])

(***************************************************************************)
(* length.rs: RsvgLength::check_nonnegative.  The f64 values that are no   *)
(* fractions are written with a zero denominator: 0/0 is NaN, 1/0 and -1/0 *)
(* the infinities.                                                         *)
(***************************************************************************)
NaN == <<0, 0>>
Infinity == <<1, 0>>
NegInfinity == <<-1, 0>>

\* a >= b on f64: false when either is NaN
RGe(a, b) == a # NaN /\ b # NaN /\ a[1] * b[2] >= b[1] * a[2]

check_nonnegative_mutant(self) ==
    IF RGe(self.length, R(0)) /\ self.length # R(0)
    THEN Ok(self)
    ELSE [ok |-> FALSE, err |-> "Value"]

check_nonnegative(self) ==
    IF RGe(self.length, R(0))
    THEN Ok(self)
    ELSE [ok |-> FALSE, err |-> "Value"]

\* the magnitudes an RsvgLength is built with
SampleMagnitudes ==
    {R(0), R(-10), R(10), Rat(-1, 2), Rat(1, 2), NaN, Infinity, NegInfinity}

InitLengthCheck ==
    /\ \E l \in SampleMagnitudes, unit \in LengthUnit, dir \in LengthDir :
         fnArgs = [fn |-> "check_nonnegative", self |-> RsvgLength_new(l, unit, dir)]
    /\ fnRet = NoRet
    /\ PatternOff

CallCheckNonnegative ==
    /\ fnArgs.fn = "check_nonnegative"
    /\ fnRet = NoRet
    /\ fnRet' = check_nonnegative(fnArgs.self)
    /\ UNCHANGED <<fnArgs, patVars>>

NextLengthCheck == CallCheckNonnegative

SpecLengthCheck == InitLengthCheck /\ [][NextLengthCheck]_vars

CheckReturned == fnArgs.fn = "check_nonnegative" /\ fnRet # NoRet

\* the error is the value-range one (not the grammar error), and a success
\* hands the length back as it was
CheckOutcome ==
    /\ ~fnRet.ok => fnRet.err = "Value" /\ fnRet # length_make_err
    /\ fnRet.ok => fnRet.v = fnArgs.self

\* C13 as stated: check_nonnegative fails exactly when the magnitude is
\* < 0, with the value-range error; otherwise it returns the length
\* unchanged.
C13_FailsExactlyWhenNegative ==
    CheckReturned =>
        /\ ~fnRet.ok <=> RLess(fnArgs.self.length, R(0))
        /\ CheckOutcome

\* C13 amended: check_nonnegative fails exactly when the magnitude is < 0
\* or is NaN, with the value-range error; otherwise (magnitude >= 0, zero
\* and +infinity included) it returns the length unchanged.
C13_FailsWhenNegativeOrNaN ==
    CheckReturned =>
        /\ ~fnRet.ok <=> (RLess(fnArgs.self.length, R(0)) \/ fnArgs.self.length = NaN)
        /\ CheckOutcome

\* a NaN magnitude was refused with the value-range error
C13_Witness ==
    /\ CheckReturned
    /\ fnArgs.self.length = NaN
    /\ fnRet = [ok |-> FALSE, err |-> "Value"]

(***************************************************************************)
(* length.rs: RsvgLength::hand_normalize, and calls of it and of normalize *)
(* on the same length                                                      *)
(***************************************************************************)
hand_normalize_mutant(self, pixels_per_inch, width_or_height, font_size) ==
    CASE self.unit = "Default" -> self.length
      [] self.unit = "Percent" -> RMul(self.length, width_or_height)
      [] self.unit = "FontEm"  -> RMul(self.length, font_size)
      [] self.unit = "FontEx"  -> RMul(self.length, font_size)
      [] self.unit = "Inch"    -> RMul(self.length, pixels_per_inch)
      [] OTHER -> R(0)

hand_normalize(self, pixels_per_inch, width_or_height, font_size) ==
    CASE self.unit = "Default" -> self.length
      [] self.unit = "Percent" -> RMul(self.length, width_or_height)
      [] self.unit = "FontEm"  -> RMul(self.length, font_size)
      [] self.unit = "FontEx"  -> RDiv(RMul(self.length, font_size), R(2))
      [] self.unit = "Inch"    -> RMul(self.length, pixels_per_inch)
      [] OTHER -> R(0)

\* view boxes and resolutions whose diagonal measure is a fraction
SampleViewBoxes == {<<R(4), R(4)>>, <<R(1), R(7)>>}
SampleDpis == {<<R(90), R(90)>>, <<R(7), R(17)>>}
SampleFontSizes == {R(12)}
SampleLengths == {R(0), Rat(1, 2), R(-3)}

\* the scalars a caller of hand_normalize may pass
SampleScalars == {R(1), R(4), R(5), R(7), R(12), R(13), R(17), R(90)}

InitLengthNormalize ==
    /\ \E l \in SampleLengths, unit \in LengthUnit, dir \in LengthDir,
          vb \in SampleViewBoxes, dpi \in SampleDpis, fs \in SampleFontSizes :
         fnArgs = [fn |-> "normalize",
                   self |-> RsvgLength_new(l, unit, dir),
                   draw_ctx |-> [DrawCtxOf(Matrix_identity) EXCEPT
                                   !.view_boxes = <<vb>>, !.dpi = dpi, !.font_size = fs],
                   hand |-> None]
    /\ fnRet = [normalize |-> None, hand_normalize |-> None]
    /\ PatternOff

CallNormalize ==
    /\ fnArgs.fn = "normalize"
    /\ is_none(fnRet.normalize)
    /\ fnRet' = [fnRet EXCEPT !.normalize = Some(normalize(fnArgs.self, fnArgs.draw_ctx))]
    /\ UNCHANGED <<fnArgs, patVars>>

CallHandNormalize ==
    /\ fnArgs.fn = "normalize"
    /\ is_none(fnRet.hand_normalize)
    /\ \E ppi \in SampleScalars, wh \in SampleScalars, fs \in SampleFontSizes \cup {R(1)} :
         /\ fnArgs' = [fnArgs EXCEPT !.hand =
                         Some([pixels_per_inch |-> ppi, width_or_height |-> wh,
                               font_size |-> fs])]
         /\ fnRet' = [fnRet EXCEPT !.hand_normalize =
                        Some(hand_normalize(fnArgs.self, ppi, wh, fs))]
    /\ UNCHANGED patVars

NextLengthNormalize == CallNormalize \/ CallHandNormalize

SpecLengthNormalize == InitLengthNormalize /\ [][NextLengthNormalize]_vars

\* the measure of a pair along an axis; for Both, sqrt ((a^2 + b^2) / 2)
AxisMeasure(pair, dir) ==
    CASE dir = "Horizontal" -> pair[1]
      [] dir = "Vertical"   -> pair[2]
      [] dir = "Both" ->
           RSqrt(RDiv(RAdd(RMul(pair[1], pair[1]), RMul(pair[2], pair[2])), R(2)))

\* the scalars handed to hand_normalize are those of the context
ScalarsMatchContext ==
    /\ is_some(fnArgs.hand)
    /\ unwrap(fnArgs.hand).pixels_per_inch =
         AxisMeasure(fnArgs.draw_ctx.dpi, fnArgs.self.dir)
    /\ unwrap(fnArgs.hand).width_or_height =
         AxisMeasure(fnArgs.draw_ctx.view_boxes[1], fnArgs.self.dir)
    /\ unwrap(fnArgs.hand).font_size = fnArgs.draw_ctx.font_size

\* the mapping of C15
MappedPixels(self, dpi, dimension, font_size) ==
    CASE self.unit = "Default" -> self.length
      [] self.unit = "Percent" -> RMul(self.length, dimension)
      [] self.unit = "FontEm"  -> RMul(self.length, font_size)
      [] self.unit = "FontEx"  -> RDiv(RMul(self.length, font_size), R(2))
      [] self.unit = "Inch"    -> RMul(self.length, dpi)
      [] self.unit \in {"RelativeLarger", "RelativeSmaller"} -> R(0)

\* C15: called on the same length with pixels_per_inch the context's dpi
\* for the length's axis, axis_dimension the context's viewport dimension
\* for that axis and font_size the context's font size, hand_normalize
\* returns what normalize returns, and that is the value of the mapping.
C15_NormalizeAgree ==
    (/\ fnArgs.fn = "normalize"
     /\ is_some(fnRet.normalize)
     /\ is_some(fnRet.hand_normalize)
     /\ ScalarsMatchContext) =>
        /\ unwrap(fnRet.normalize) = unwrap(fnRet.hand_normalize)
        /\ unwrap(fnRet.normalize) =
             MappedPixels(fnArgs.self,
                          AxisMeasure(fnArgs.draw_ctx.dpi, fnArgs.self.dir),
                          AxisMeasure(fnArgs.draw_ctx.view_boxes[1], fnArgs.self.dir),
                          fnArgs.draw_ctx.font_size)

\* half of the diagonal measure 5 of a 1 x 7 viewport, from both
C15_Witness ==
    /\ fnArgs.fn = "normalize"
    /\ ScalarsMatchContext
    /\ fnArgs.self = RsvgLength_new(Rat(1, 2), "Percent", "Both")
    /\ fnArgs.draw_ctx.view_boxes = <<<<R(1), R(7)>>>>
    /\ fnRet.normalize = Some(Rat(5, 2))
    /\ fnRet.hand_normalize = Some(Rat(5, 2))

(***************************************************************************)
(* Properties of the defaults step                                         *)
(***************************************************************************)
\* the lookups made so far
Acquires(log) == SelectSeq(log, LAMBDA e : e.op = "acquire")

\* the working copy has no fallback name, or the name finds no pattern
NoFallbackFound ==
    \/ is_none(result.fallback)
    \/ unwrap(result.fallback) \notin NodeNames
    \/ ~nodes[unwrap(result.fallback)].is_pattern

\* field f after the step: as it was when set, else its default
DefaultedField(f, before, after) ==
    IF is_some(before) THEN after = before
    ELSE /\ is_some(after)
         /\ IF f \in LengthFields
            THEN [length |-> unwrap(after).length, unit |-> unwrap(after).unit] = Defaults[f]
            ELSE unwrap(after) = Defaults[f]

MaxLookups == 3

\* documents in which b and c are patterns or nodes of another kind
SourceDocuments ==
    {[n \in NodeNames |->
        [is_pattern |-> n \in pats, has_children |-> FALSE,
         pattern |-> PatternOf(n, {}, None)]] : pats \in SUBSET NodeNames}

InitFallbackSource ==
    /\ fnArgs = [fn |-> "get_fallback", name |-> ""]
    /\ fnRet = NoRet
    /\ pc = "source"
    /\ nodes \in SourceDocuments
    /\ pattern = <<>>
    /\ result = <<>>
    /\ acquired_nodes = <<>>
    /\ node_log = <<>>
    /\ iters = 0
    /\ bbox = <<>>
    /\ exit = "none"
    /\ draw_ctx = <<>>

\* fallback_source.get_fallback (name)
GetFallback ==
    /\ pc = "source"
    /\ iters < MaxLookups
    /\ \E name \in NodeNames \cup {"zz"} :
         /\ fnArgs' = [fnArgs EXCEPT !.name = name]
         /\ fnRet' = get_fallback(acquired_nodes, name).ret
         /\ acquired_nodes' = get_fallback(acquired_nodes, name).acquired_nodes
         /\ node_log' = node_log \o AcquireLog(get_fallback(acquired_nodes, name))
    /\ iters' = iters + 1
    /\ UNCHANGED <<pc, nodes, pattern, result, bbox, exit, draw_ctx>>

\* the source goes out of scope
DropSource ==
    /\ pc = "source"
    /\ node_log' = node_log \o DropReleases(acquired_nodes)
    /\ acquired_nodes' = <<>>
    /\ pc' = "dropped"
    /\ UNCHANGED <<fnVars, nodes, pattern, result, iters, bbox, exit, draw_ctx>>

NextFallbackSource == GetFallback \/ DropSource

SpecFallbackSource == InitFallbackSource /\ [][NextFallbackSource]_vars

\* the nodes of the log entries that did op, in log order
NodesOf(op) ==
    LET es == SelectSeq(node_log, LAMBDA e : e.op = op)
    IN  [i \in 1..Len(es) |-> es[i].node]

\* C17: once the source is dropped, the handles were released in the
\* reverse of the order of their acquisition, every release after every
\* acquisition.
C17_ReverseRelease ==
    pc = "dropped" =>
        /\ NodesOf("release") = Reverse(NodesOf("acquire"))
        /\ \A i, j \in DOMAIN node_log :
             (node_log[i].op = "acquire" /\ node_log[j].op = "release") => i < j

\* three handles, the second of a node that is no pattern
C17_Witness ==
    /\ pc = "dropped"
    /\ ~nodes["b"].is_pattern
    /\ NodesOf("acquire") = <<"a", "b", "c">>
    /\ NodesOf("release") = <<"c", "b", "a">>

(***************************************************************************)
(* Properties of the walk along the chain                                  *)
(***************************************************************************)
\* the nodes a walk from node n acquires, in chain order: each fallback
\* name that names a node, up to the first that is no pattern
RECURSIVE ChainNodes(_)
ChainNodes(n) ==
    LET fb == nodes[n].pattern.fallback IN
    IF is_none(fb) \/ unwrap(fb) \notin NodeNames THEN <<>>
    ELSE IF ~nodes[unwrap(fb)].is_pattern THEN <<unwrap(fb)>>
    ELSE <<unwrap(fb)>> \o ChainNodes(unwrap(fb))

IsPrefix(p, q) == Len(p) <= Len(q) /\ p = SubSeq(q, 1, Len(p))

\* the nodes acquired so far in the call, in order
AcquiredSoFar ==
    [i \in 1..Len(Acquires(node_log)) |-> Acquires(node_log)[i].node]

\* C18: on an acyclic chain the lookups follow the chain: the nodes
\* acquired so far are the first nodes of the chain, in chain order, each
\* acquired once.
C18_WalkAdvances ==
    (pc # "idle" /\ ~CyclicChain) => IsPrefix(AcquiredSoFar, ChainNodes(Entity))

(***************************************************************************)
(* Properties of set_pattern_on_draw_context                               *)
(***************************************************************************)
\* the nearest integer, halves away from zero
Round(r) ==
    IF r[1] >= 0 THEN (2 * r[1] + r[2]) \div (2 * r[2])
    ELSE -((2 * (-r[1]) + r[2]) \div (2 * r[2]))

\* width_norm and height_norm: the lengths in the 1 x 1 viewport of the
\* bounding box when obj_bbox is set, else in the caller's viewport
NormOf(len) ==
    hand_normalize(len,
        AxisMeasure(draw_ctx.dpi, len.dir),
        IF unwrap(result.obj_bbox) THEN R(1)
        ELSE AxisMeasure(draw_ctx.view_boxes[1], len.dir),
        draw_ctx.font_size)

\* width_norm * bbw and height_norm * bbh
ScaledWidth ==
    RMul(NormOf(unwrap(result.width)),
         IF unwrap(result.obj_bbox) THEN bbox.rect.width ELSE R(1))

ScaledHeight ==
    RMul(NormOf(unwrap(result.height)),
         IF unwrap(result.obj_bbox) THEN bbox.rect.height ELSE R(1))

\* C19: the surface drawn to is round (width_norm * bbw * scale_x) wide
\* and round (height_norm * bbh * scale_y) high.
C19_TileRounded ==
    (pc = "drop" /\ exit = "drawn") =>
        /\ unwrap(draw_ctx.source).surface.width =
             Round(RMul(ScaledWidth, SP_Scales(result, draw_ctx).scwscale))
        /\ unwrap(draw_ctx.source).surface.height =
             Round(RMul(ScaledHeight, SP_Scales(result, draw_ctx).schscale))

\* C20: called with a scaled width or height below epsilon,
\* set_pattern_on_draw_context returns early and leaves the drawing context
\* as it was: no surface, no children drawn, no source set, the transform,
\* the cairo context, the state stack and the view box stack unchanged.
C20_EarlyExitNoOp ==
    [][(/\ pc = "set"
        /\ is_resolved(result)
        /\ \/ LessThanDblEpsilon(RAbs(ScaledWidth))
           \/ LessThanDblEpsilon(RAbs(ScaledHeight))) =>
            /\ exit' = "early"
            /\ draw_ctx' = draw_ctx
      ]_vars

\* an early return for a bounding box of width 0, after the 1 x 1 view box
\* was pushed and popped
C20_Witness ==
    /\ pc = "drop"
    /\ exit = "early"
    /\ unwrap(result.obj_bbox)
    /\ bbox.rect.width = R(0)
    /\ unwrap(result.width).length # R(0)
    /\ draw_ctx = DrawCtxOf(Matrix_identity)

(***************************************************************************)
(* The fallback reference is a name, never ownership                       *)
(***************************************************************************)
\* resolve_pattern run afresh on p against the definitions as they are now,
\* with a fallback source of its own
RECURSIVE ResolveAgain(_, _)
ResolveAgain(res, k) ==
    IF is_resolved(res) \/ k = MaxIters THEN res
    ELSE LET found == IF is_some(res.fallback)
                      THEN get_fallback(<<>>, unwrap(res.fallback)).ret
                      ELSE None
         IN IF is_some(found)
            THEN ResolveAgain(resolve_from_fallback(res, unwrap(found)), k + 1)
            ELSE resolve_from_defaults(res)

C22_StacksBalanced ==
    [][pc = "set" =>
         /\ Len(draw_ctx'.view_boxes) = Len(draw_ctx.view_boxes)
         /\ Len(draw_ctx'.states) = Len(draw_ctx.states)
         /\ draw_ctx'.cr = draw_ctx.cr
      ]_vars

\* children drawn between two pushes of a view box (the 1 x 1 box of the
\* bounding box, then the pattern's own) and a push of the state
C22_Witness ==
    /\ pc = "drop"
    /\ exit = "drawn"
    /\ unwrap(result.obj_bbox)
    /\ unwrap(result.vbox).active
    /\ draw_ctx.drawn # <<>>
    /\ Len(draw_ctx.view_boxes) = 1
    /\ Len(draw_ctx.states) = 1

(***************************************************************************)
(* Totality of AspectRatio::from_u32                                       *)
(***************************************************************************)
\* C23: from_u32 returns an AspectRatio for every 32-bit word, and for a
\* word with none of bits 0..8 set it returns align None with defer equal
\* to bit 31, whatever bit 30 is.
C23_FromU32Total ==
    (fnArgs.fn = "from_u32" /\ fnRet.tag = "value") =>
        /\ "defer" \in DOMAIN fnRet.value
        /\ fnRet.value \in AspectRatio
        /\ (fnArgs.val \cap (0..8) = {}) =>
              /\ fnRet.value.align = AlignNone
              /\ fnRet.value.defer = (31 \in fnArgs.val)

(***************************************************************************)
(* Totality of RsvgLength::parse                                           *)
(***************************************************************************)
\* C24: parse returns a length or an error for every string and never
\* aborts; in particular a named font size with whitespace before or after
\* it never reaches the unreachable branch of compute_named_size.
C24_ParseTotal ==
    LengthParseReturned =>
        /\ fnRet # Panic
        /\ (NonBlank(fnArgs.s) # fnArgs.s
              /\ Len(NonBlank(fnArgs.s)) = 1
              /\ IsNamedSize(NonBlank(fnArgs.s)[1])) => fnRet.ok

(***************************************************************************)
(* The size of the tile                                                    *)
(***************************************************************************)
\* C25: when set_pattern_on_draw_context does not return early, the surface
\* is at least 1 x 1, the corrected scwscale and schscale are not zero and
\* the placement matrix built from their inverses is finite.
C25_TileAtLeastOne ==
    (pc = "drop" /\ exit = "drawn") =>
        LET source == unwrap(draw_ctx.source) IN
        /\ source.surface.width >= 1
        /\ source.surface.height >= 1
        /\ source.scwscale # R(0)
        /\ source.schscale # R(0)
        /\ source.finite

====
